---- MODULE Spec2Model ----
(***************************************************************************)
(* A model of warmachine/connections/slack.py: the SlackWS connector.      *)
(*                                                                         *)
(* Python values are modelled as follows.                                  *)
(*   - a str that the code inspects character by character (names,        *)
(*     destinations, channel ids, message text) is a sequence of atoms;    *)
(*   - a dict is a function (a record) whose DOMAIN is the set of keys     *)
(*     present, so that `k in d` is  k \in DOMAIN d  and a missing key is  *)
(*     a KeyError;                                                         *)
(*   - None is the one-atom sequence None, distinct from every str.        *)
(***************************************************************************)
EXTENDS Integers, Sequences, FiniteSets, TLC

\* ------------------------------------------------------------------ bounds
\* say() calls that reach the counter increment (caps _internal_msgid)
MaxMsgs == 3
\* heartbeat probes issued (caps _internal_pingid)
MaxPings == 2
\* streaming sessions the backend opens over a run
MaxSessions == 2
\* largest lag (now - msg['time']) a pong can report
MaxLag == 1

\* ------------------------------------------------------- python primitives
None == <<"None">>
EmptyDict == <<>>

\* d[k] = v
Put(d, k, v) == [x \in (DOMAIN d) \cup {k} |-> IF x = k THEN v ELSE d[x]]
\* del d[k]
Del(d, k) == [x \in (DOMAIN d) \ {k} |-> d[x]]
\* k in d
Has(d, k) == k \in DOMAIN d

\* str.startswith(c) for a one-atom prefix c
StartsWith(s, c) == Len(s) > 0 /\ s[1] = c
\* c in s
Contains(s, c) == \E i \in 1..Len(s) : s[i] = c
\* s.replace(c, '')
Remove(s, c) == SelectSeq(s, LAMBDA a : a # c)

\* ------------------------------------------------------------------- state
VARIABLES
    user_map,            \* self.user_map: user id -> user record
    user_nick_to_id,     \* self.user_nick_to_id: name -> user id
    channel_map,         \* self.channel_map: channel/im id -> record
    channel_name_to_id,  \* self.channel_name_to_id: name -> channel id
    nick,                \* self.nick
    my_id,               \* self.my_id
    ws,                  \* self.ws: 0 is None, n > 0 the n-th session opened
    _internal_msgid,     \* self._internal_msgid
    _internal_pingid,    \* self._internal_pingid
    lag_in_ms,           \* self.lag_in_ms
    status,              \* self.status  (set in __init__ only)
    STATUS,              \* self.STATUS  (the attribute connect/on_hello set)
    dm_cache,            \* the memo table of get_dm_id_by_user
    \* --- environment and observation
    live,                \* sessions the backend still holds open
    opened,              \* sessions opened so far
    readPc,              \* where read() is: "idle", "connecting", "sleeping"
    hello_pending,       \* the session has not yet delivered its hello event
    ping_tasks,          \* do_ping coroutines scheduled by start_ping, not yet run
    ping_timers,         \* pending call_later(4, start_ping) timers
    sent_ids,            \* the ids say() has put on envelopes, in order
    dm_calls,            \* user id -> backend im.open calls that answered ok
    last                 \* the last operation, its input and its outcome

conn == <<user_map, user_nick_to_id, channel_map, channel_name_to_id, nick,
          my_id, ws, _internal_msgid, _internal_pingid, lag_in_ms, status,
          STATUS, dm_cache>>
env == <<live, opened, readPc, hello_pending, ping_tasks, ping_timers, sent_ids,
        dm_calls>>
vars == <<conn, env, last>>

\* base.py's lifecycle constants (imported at line 11)
INITALIZED == "Initalized"
CONNECTING == "Connecting"
CONNECTED == "Connected"
Unset == "<unset>"

\* SlackWS.__init__
Init ==
    /\ user_map = EmptyDict
    /\ user_nick_to_id = EmptyDict
    /\ channel_map = EmptyDict
    /\ channel_name_to_id = EmptyDict
    /\ nick = <<>>
    /\ my_id = "000"
    /\ ws = 0
    /\ _internal_msgid = 0
    /\ _internal_pingid = 0
    /\ lag_in_ms = 0
    /\ status = INITALIZED
    /\ STATUS = Unset
    /\ dm_cache = EmptyDict
    /\ live = {}
    /\ opened = 0
    /\ readPc = "idle"
    /\ hello_pending = FALSE
    /\ ping_tasks = 0
    /\ ping_timers = 0
    /\ sent_ids = <<>>
    /\ dm_calls = EmptyDict
    /\ last = [op |-> "init"]

\* ------------------------------------------------- bootstrap (rtm.start)
\* dict.get(k, default)
Get(d, k, default) == IF k \in DOMAIN d THEN d[k] ELSE default

\* A value of the payload that is not a dict (a malformed "self" section).
NotADict == [nondict |-> TRUE]
IsDict(v) == "nondict" \notin DOMAIN v

\* The cache tables and the session identity, as one record.
Tables ==
    [user_map |-> user_map, user_nick_to_id |-> user_nick_to_id,
     channel_map |-> channel_map, channel_name_to_id |-> channel_name_to_id,
     nick |-> nick, my_id |-> my_id]

\* for u in users: user_map[u['id']] = u; user_nick_to_id[u['name']] = u['id']
RECURSIVE MapUsers(_, _)
MapUsers(us, t) ==
    IF us = <<>> THEN t
    ELSE LET u == Head(us) IN
         MapUsers(Tail(us),
                  [t EXCEPT !.user_map = Put(@, u.id, u),
                            !.user_nick_to_id = Put(@, u.name, u.id)])

\* for i in ims: channel_map[i['id']] = i
RECURSIVE MapIms(_, _)
MapIms(ims, t) ==
    IF ims = <<>> THEN t
    ELSE MapIms(Tail(ims), [t EXCEPT !.channel_map = Put(@, Head(ims).id, Head(ims))])

\* for c in channels (and again for groups):
\*     channel_map[c['id']] = c; channel_name_to_id[c['name']] = c['id']
RECURSIVE MapChannels(_, _)
MapChannels(cs, t) ==
    IF cs = <<>> THEN t
    ELSE LET c == Head(cs) IN
         MapChannels(Tail(cs),
                     [t EXCEPT !.channel_map = Put(@, c.id, c),
                               !.channel_name_to_id = Put(@, c.name, c.id)])

\* The try block of process_connect_info: a missing "self" is a KeyError,
\* caught and logged; a "self" that is not a dict has no .get and raises
\* AttributeError, which is not caught.
ReadSelf(info, t) ==
    IF ~Has(info, "self") THEN [raised |-> FALSE, t |-> t]
    ELSE IF ~IsDict(info.self) THEN [raised |-> TRUE, t |-> t]
    ELSE [raised |-> FALSE,
          t |-> [t EXCEPT !.my_id = Get(info.self, "id", "000"),
                          !.nick = Get(info.self, "name", None)]]

\* SlackWS.process_connect_info
ProcessConnectInfo(info, t) ==
    IF info = EmptyDict THEN [raised |-> FALSE, t |-> t]
    ELSE LET s == ReadSelf(info, t) IN
         IF s.raised THEN s
         ELSE [raised |-> FALSE,
               t |-> MapChannels(Get(info, "groups", <<>>),
                       MapChannels(Get(info, "channels", <<>>),
                         MapIms(Get(info, "ims", <<>>),
                           MapUsers(Get(info, "users", <<>>), s.t))))]

\* SlackWS.authenticate: urlerr is urlopen raising; the reply is info.
Authenticate(info, urlerr, t) ==
    IF urlerr THEN [raised |-> TRUE, t |-> t, url |-> None]
    ELSE IF ~Get(info, "ok", TRUE) THEN [raised |-> TRUE, t |-> t, url |-> None]
    ELSE LET r == ProcessConnectInfo(info, t) IN
         [raised |-> r.raised, t |-> r.t, url |-> Get(info, "url", None)]

\* connect() with line 63 moved above the try block: the status is set
\* before authenticate() is called.
ConnectResultStatusFirst(info, urlerr, wsok) ==
    LET a == Authenticate(info, urlerr, Tables) IN
    IF a.raised
    THEN [ret |-> "None", t |-> a.t, STATUS |-> CONNECTING, ws |-> ws,
          live |-> live, opened |-> opened]
    ELSE IF wsok /\ a.url # None
    THEN [ret |-> "True", t |-> a.t, STATUS |-> CONNECTING, ws |-> opened + 1,
          live |-> live \cup {opened + 1}, opened |-> opened + 1]
    ELSE [ret |-> "raised", t |-> a.t, STATUS |-> CONNECTING, ws |-> ws,
          live |-> live, opened |-> opened]

\* SlackWS.connect, as the values it leaves behind.  ret is TRUE (line 67),
\* None (line 62) or "raised" (websockets.connect raised: nothing catches it).
\* wsok: the backend accepts the streaming session at the url.
ConnectResult(info, urlerr, wsok) ==
    LET a == Authenticate(info, urlerr, Tables) IN
    IF a.raised
    THEN [ret |-> "None", t |-> a.t, STATUS |-> STATUS, ws |-> ws,
          live |-> live, opened |-> opened]
    ELSE IF wsok /\ a.url # None
    THEN [ret |-> "True", t |-> a.t, STATUS |-> CONNECTING, ws |-> opened + 1,
          live |-> live \cup {opened + 1}, opened |-> opened + 1]
    ELSE [ret |-> "raised", t |-> a.t, STATUS |-> CONNECTING, ws |-> ws,
          live |-> live, opened |-> opened]

\* A connect() that gets as far as `await websockets.connect` (line 65)
\* suspends there, and the event loop runs every do_ping task that is ready
\* before connect() resumes and assigns self.ws.  Such a task numbers its
\* probe and calls _send with the handle of before the call, which is None
\* or a closed session: _send raises and the task ends without its timer.
Suspends(r) == r.ret # "None"

\* The assignments of a connect() call.
ApplyConnect(r) ==
    /\ user_map' = r.t.user_map
    /\ user_nick_to_id' = r.t.user_nick_to_id
    /\ channel_map' = r.t.channel_map
    /\ channel_name_to_id' = r.t.channel_name_to_id
    /\ nick' = r.t.nick
    /\ my_id' = r.t.my_id
    /\ STATUS' = r.STATUS
    /\ ws' = r.ws
    /\ live' = r.live
    /\ opened' = r.opened
    /\ hello_pending' = IF r.ret = "True" THEN TRUE ELSE hello_pending
    /\ Suspends(r) => _internal_pingid + ping_tasks <= MaxPings
    /\ _internal_pingid' = IF Suspends(r) THEN _internal_pingid + ping_tasks
                           ELSE _internal_pingid
    /\ ping_tasks' = IF Suspends(r) THEN 0 ELSE ping_tasks
    /\ UNCHANGED <<_internal_msgid, lag_in_ms, status, dm_cache, ping_timers,
                   sent_ids, dm_calls>>

\* What authenticate() met: whether urlopen raised, and the keys of the
\* rtm.start reply that decide how the bootstrap goes.
AuthInput(info, urlerr) ==
    [urlerr |-> urlerr,
     info |-> [k \in (DOMAIN info) \cap {"ok", "self"} |-> info[k]]]

\* The owning process calls connect() while the connector has no session.
InitialConnect(info, urlerr, wsok) ==
    /\ readPc = "idle"
    /\ ws = 0
    /\ wsok => opened < MaxSessions
    /\ LET r == ConnectResult(info, urlerr, wsok) IN
       /\ ApplyConnect(r)
       /\ last' = [op |-> "connect", ret |-> r.ret, auth |-> AuthInput(info, urlerr)]
    /\ UNCHANGED readPc

\* The backend (or the network) closes the streaming session.
TransportClose ==
    /\ ws \in live
    /\ live' = live \ {ws}
    /\ last' = [op |-> "close"]
    /\ UNCHANGED <<conn, opened, readPc, hello_pending, ping_tasks, ping_timers, sent_ids,
                   dm_calls>>

\* read(): recv() raises ConnectionClosed (lines 78-79); the reconnect loop
\* starts.
ReadClosed ==
    /\ readPc = "idle"
    /\ ws # 0
    /\ ws \notin live
    /\ readPc' = "connecting"
    /\ last' = [op |-> "read", path |-> "closed", result |-> "reconnecting"]
    /\ UNCHANGED <<conn, live, opened, hello_pending, ping_tasks, ping_timers, sent_ids,
                   dm_calls>>

\* Connection.error (base.py, not in this file): logs the message.
error == "logged"

\* One turn of `while not await self.connect()` (lines 80-83): connect()
\* returned True and read() returns; or it returned None, the error is logged
\* and the loop sleeps; or it raised, and the exception leaves read().
ReconnectAttempt(info, urlerr, wsok) ==
    /\ readPc = "connecting"
    /\ wsok => opened < MaxSessions
    /\ LET r == ConnectResult(info, urlerr, wsok) IN
       /\ ApplyConnect(r)
       /\ readPc' = IF r.ret = "None" /\ error = "logged" THEN "sleeping" ELSE "idle"
       /\ last' = [op |-> "reconnect", ret |-> r.ret, auth |-> AuthInput(info, urlerr),
                   result |-> IF r.ret = "True" THEN "returned"
                              ELSE IF r.ret = "None" /\ error = "logged" THEN "sleeping"
                              ELSE "raised"]

\* await asyncio.sleep(300) is over (line 82)
ReconnectWake ==
    /\ readPc = "sleeping"
    /\ readPc' = "connecting"
    /\ last' = [op |-> "wake"]
    /\ UNCHANGED <<conn, live, opened, hello_pending, ping_tasks, ping_timers, sent_ids,
                   dm_calls>>

\* --------------------------------------------------------- outbound path
\* The part of the state say() works on, as one record; said collects the
\* envelopes the operation under way hands to _send, asked the replies it
\* got from im.open, says the arguments of its say() calls.
Out ==
    [msgid |-> _internal_msgid, dm_cache |-> dm_cache, dm_calls |-> dm_calls,
     said |-> <<>>, asked |-> <<>>, says |-> <<>>]

\* SlackWS._send: ws is None (AttributeError), the session is closed
\* (ConnectionClosed), or the frame is written.
SendOk == ws # 0 /\ ws \in live
Send(envelope, o) ==
    [o EXCEPT !.said = Append(@, [env |-> envelope, ok |-> SendOk])]

\* The body of get_dm_id_by_user (lines 302-316): the im.open reply is resp.
UrlError == [urlerror |-> TRUE]
DmOpen(user_id, resp) ==
    IF Has(resp, "urlerror") THEN [raised |-> TRUE, ret |-> None]
    ELSE IF ~resp.ok THEN [raised |-> FALSE, ret |-> None]
    ELSE [raised |-> FALSE, ret |-> resp.channel.id]

\* utils.decorators.memoize (not in this file): a result, once computed for a
\* key, is kept and returned without calling the function again; an absent
\* result is not kept.
MemoHit(cache, key) == Has(cache, key)
MemoStore(cache, key, val) == IF val = None THEN cache ELSE Put(cache, key, val)

\* get_dm_id_by_user without its decorator.
GetDmIdByUserUnmemoized(user_id, o, be) ==
    LET r == DmOpen(user_id, be[user_id])
        o1 == [o EXCEPT !.asked = Append(@, be[user_id])] IN
    [raised |-> r.raised, ret |-> r.ret,
     o |-> IF r.raised \/ r.ret = None THEN o1
           ELSE [o1 EXCEPT !.dm_cache = Put(@, user_id, r.ret),
                           !.dm_calls = Put(@, user_id, Get(@, user_id, 0) + 1)]]

\* SlackWS.get_dm_id_by_user, memoized (lines 291-316).  be maps each user id
\* to the reply the backend would give to im.open.
GetDmIdByUser(user_id, o, be) ==
    IF MemoHit(o.dm_cache, user_id)
    THEN [raised |-> FALSE, ret |-> o.dm_cache[user_id], o |-> o]
    ELSE LET r == DmOpen(user_id, be[user_id])
             o1 == [o EXCEPT !.asked = Append(@, be[user_id])] IN
         [raised |-> r.raised, ret |-> r.ret,
          o |-> IF r.raised \/ r.ret = None THEN o1
                ELSE [o1 EXCEPT !.dm_cache = MemoStore(@, user_id, r.ret),
                                !.dm_calls = Put(@, user_id, Get(@, user_id, 0) + 1)]]

\* self._internal_msgid += 1 (line 142)
NextMsgIdStuck(n) == n
NextMsgId(n) == n + 1

\* Lines 142-150: number the envelope and hand it to _send.
SayEnvelope(message, channel, o) ==
    LET id == NextMsgId(o.msgid)
        o1 == Send([id |-> id, type |-> "message", channel |-> channel,
                    text |-> message], [o EXCEPT !.msgid = id])
    IN [result |-> IF SendOk THEN "sent" ELSE "send_raised", o |-> o1]

\* The test of line 136 on the user record rec, without the bot flag.
RejectsDeletedOnly(destination, rec) ==
    IF Contains(destination, "#") THEN "no"
    ELSE IF ~Has(rec, "deleted") THEN "KeyError"
    ELSE IF rec.deleted THEN "yes"
    ELSE "no"

\* The test of line 136 on the user record rec: "yes" (return), "no", or
\* "KeyError" when a flag the test reads is missing.
Rejects(destination, rec) ==
    IF Contains(destination, "#") THEN "no"
    ELSE IF ~Has(rec, "deleted") THEN "KeyError"
    ELSE IF rec.deleted THEN "yes"
    ELSE IF ~Has(rec, "is_bot") THEN "KeyError"
    ELSE IF rec.is_bot THEN "yes"
    ELSE "no"

\* SlackWS.say
SayResult(message, destination, caller, be) ==
    LET o == [caller EXCEPT !.says = Append(@, [text |-> message, to |-> destination])]
    IN
    IF destination # None /\ StartsWith(destination, "#")
    THEN LET name == Remove(destination, "#") IN
         IF ~Has(channel_name_to_id, name) THEN [result |-> "KeyError", o |-> o]
         ELSE SayEnvelope(message, channel_name_to_id[name], o)
    ELSE IF ~Has(user_nick_to_id, destination) THEN [result |-> "KeyError", o |-> o]
    ELSE LET _user == user_nick_to_id[destination] IN
         IF ~Has(user_map, _user) THEN [result |-> "KeyError", o |-> o]
         ELSE LET rej == Rejects(destination, user_map[_user]) IN
              IF rej = "KeyError" THEN [result |-> "KeyError", o |-> o]
              ELSE IF rej = "yes" THEN [result |-> "dropped", o |-> o]
              ELSE LET d == GetDmIdByUser(_user, o, be) IN
                   IF d.raised THEN [result |-> "dm_raised", o |-> d.o]
                   ELSE SayEnvelope(message, d.ret, d.o)

ApplyOut(o) ==
    /\ _internal_msgid' = o.msgid
    /\ dm_cache' = o.dm_cache
    /\ dm_calls' = o.dm_calls
    /\ sent_ids' = sent_ids \o [i \in 1..Len(o.said) |-> o.said[i].env.id]

\* A collaborator (a plugin) calls say().
Say(message, destination, be) ==
    /\ _internal_msgid < MaxMsgs
    /\ LET r == SayResult(message, destination, Out, be) IN
       /\ ApplyOut(r.o)
       /\ last' = [op |-> "say", destination |-> destination, result |-> r.result,
                   said |-> r.o.said, asked |-> r.o.asked]
    /\ UNCHANGED <<user_map, user_nick_to_id, channel_map, channel_name_to_id,
                   nick, my_id, ws, _internal_pingid, lag_in_ms, status, STATUS,
                   live, opened, readPc, hello_pending, ping_tasks, ping_timers>>

\* A collaborator resolves a DM channel directly.
ResolveDm(user_id, be) ==
    /\ LET r == GetDmIdByUser(user_id, Out, be) IN
       /\ ApplyOut(r.o)
       /\ last' = [op |-> "resolve", user |-> user_id, reply |-> be[user_id],
                   result |-> IF r.raised THEN "raised" ELSE "returned",
                   ret |-> r.ret]
    /\ UNCHANGED <<user_map, user_nick_to_id, channel_map, channel_name_to_id,
                   nick, my_id, ws, _internal_pingid, lag_in_ms, status, STATUS,
                   live, opened, readPc, hello_pending, ping_tasks, ping_timers>>

\* ------------------------------------------------------------- heartbeat
\* SlackWS.do_ping: a scheduled probe runs.  When _send raises, line 362 is
\* not reached and nothing is scheduled.
DoPing ==
    /\ ping_tasks > 0
    /\ _internal_pingid < MaxPings
    /\ _internal_pingid' = _internal_pingid + 1
    /\ ping_tasks' = ping_tasks - 1
    /\ ping_timers' = IF SendOk THEN ping_timers + 1 ELSE ping_timers
    /\ last' = [op |-> "ping", id |-> _internal_pingid + 1,
                 result |-> IF SendOk THEN "sent" ELSE "send_raised"]
    /\ UNCHANGED <<user_map, user_nick_to_id, channel_map, channel_name_to_id,
                   nick, my_id, ws, _internal_msgid, lag_in_ms, status, STATUS,
                   dm_cache, live, opened, readPc, hello_pending, sent_ids, dm_calls>>

\* The call_later(4, self.start_ping) timer fires: start_ping schedules do_ping.
PingTimer ==
    /\ ping_timers > 0
    /\ ping_timers' = ping_timers - 1
    /\ ping_tasks' = ping_tasks + 1
    /\ last' = [op |-> "timer"]
    /\ UNCHANGED <<conn, live, opened, readPc, hello_pending, sent_ids, dm_calls>>

\* ---------------------------------------------------------- inbound path
\* The four ways read() treats an envelope (lines 86-119).
RouteMessageFirst(message) ==
    IF Has(message, "type") /\ message.type = "message" THEN "message"
    ELSE IF Has(message, "reply_to") /\ ~Has(message, "type") THEN "ack"
    ELSE IF ~Has(message, "type") THEN "typeless"
    ELSE "dispatch"

Route(message) ==
    IF Has(message, "reply_to") /\ ~Has(message, "type") THEN "ack"
    ELSE IF ~Has(message, "type") THEN "typeless"
    ELSE IF message.type = "message" /\ ~Has(message, "subtype") THEN "message"
    ELSE "dispatch"

\* msgtype of lines 102-110
MsgType(message) ==
    IF Has(message, "subtype") THEN message.type \o "_" \o message.subtype
    ELSE message.type

\* The on_<msgtype> attributes of SlackWS: what hasattr (line 115) finds.
Handlers ==
    {"hello", "user_change", "reconnect_url", "presence_change", "pong",
     "group_join", "message_message_changed", "reaction_added", "user_typing",
     "file_shared", "file_public", "channel_joined", "message_channel_join",
     "message_group_join", "desktop_notification"}

\* What a handler may change.
Handled ==
    [raised |-> FALSE, user_map |-> user_map, user_nick_to_id |-> user_nick_to_id,
     STATUS |-> STATUS, lag_in_ms |-> lag_in_ms, ping_tasks |-> ping_tasks]

\* Python truthiness of a str-or-None
Truthy(v) == v # None /\ v # <<>>

\* on_user_change that indexes the name of the event's user without
\* storing the record (line 260 forgotten).
OnUserChangeIndexOnly(msg) ==
    IF ~Has(msg, "user") \/ ~Has(msg.user, "id") THEN [Handled EXCEPT !.raised = TRUE]
    ELSE [Handled EXCEPT
             !.user_nick_to_id = Put(user_nick_to_id, msg.user.name, msg.user.id)]

\* SlackWS.on_user_change
OnUserChange(msg) ==
    IF ~Has(msg, "user") \/ ~Has(msg.user, "id") THEN [Handled EXCEPT !.raised = TRUE]
    ELSE LET user_info == msg.user
             um == Put(user_map, user_info.id, user_info)
             old_nick == IF Has(um[user_info.id], "nick") THEN um[user_info.id].nick
                         ELSE None
         IN IF Truthy(old_nick) /\ old_nick # user_info.nick
            THEN IF ~Has(user_nick_to_id, old_nick)
                 THEN [Handled EXCEPT !.raised = TRUE, !.user_map = um]
                 ELSE [Handled EXCEPT !.user_map = um,
                          !.user_nick_to_id =
                              Put(Del(user_nick_to_id, old_nick), user_info.nick,
                                  user_info.id)]
            ELSE [Handled EXCEPT !.user_map = um]

\* SlackWS.on_presence_change
OnPresenceChange(msg) ==
    IF ~Has(msg, "user") \/ ~Has(msg, "presence") THEN [Handled EXCEPT !.raised = TRUE]
    ELSE IF ~Has(user_map, msg.user) THEN [Handled EXCEPT !.raised = TRUE]
    ELSE [Handled EXCEPT
             !.user_map = Put(user_map, msg.user,
                              Put(user_map[msg.user], "presence", msg.presence))]

\* on_hello without its last line: the heartbeat is not started.
OnHelloNoPing(msg) == [Handled EXCEPT !.STATUS = CONNECTED]

\* SlackWS.on_hello: sets STATUS and calls start_ping, which schedules do_ping
OnHello(msg) ==
    [Handled EXCEPT !.STATUS = CONNECTED, !.ping_tasks = ping_tasks + 1]

\* SlackWS.on_pong: lag is now - msg['time']
OnPong(msg, lag) ==
    IF ~Has(msg, "time") THEN [Handled EXCEPT !.raised = TRUE]
    ELSE [Handled EXCEPT !.lag_in_ms = lag]

\* The else branch of line 117 with the hasattr test forgotten: getattr raises.
DispatchUnknownRaises(msgtype) == [Handled EXCEPT !.raised = TRUE]
\* The else branch of line 117: log at debug level, nothing else.
DispatchUnknown(msgtype) == Handled

\* Lines 112-119: look the handler up and call it.
Dispatch(message, lag) ==
    LET msgtype == MsgType(message) IN
    IF msgtype \in Handlers
    THEN CASE msgtype = "hello" -> OnHello(message)
           [] msgtype = "user_change" -> OnUserChange(message)
           [] msgtype = "presence_change" -> OnPresenceChange(message)
           [] msgtype = "pong" -> OnPong(message, lag)
           [] OTHER -> Handled
    ELSE DispatchUnknown(msgtype)

\* str.split(' ')
RECURSIVE Split(_)
Split(s) ==
    IF ~Contains(s, " ") THEN <<s>>
    ELSE LET i == CHOOSE k \in 1..Len(s) : s[k] = " " /\ \A j \in 1..(k - 1) : s[j] # " "
         IN <<SubSeq(s, 1, i - 1)>> \o Split(SubSeq(s, i + 1, Len(s)))

\* pprint.pformat of a record
pformat(rec) == [pformat |-> rec]

\* Lines 240-242: one say() per nickname; the first exception ends the loop.
RECURSIVE WhoisLoop(_, _, _, _)
WhoisLoop(nicknames, _sender, o, be) ==
    IF nicknames = <<>> THEN [raised |-> FALSE, o |-> o]
    ELSE LET n == Head(nicknames) IN
         IF ~Has(user_nick_to_id, n) \/ ~Has(user_map, user_nick_to_id[n])
         THEN [raised |-> TRUE, o |-> o]
         ELSE LET r == SayResult(pformat(user_map[user_nick_to_id[n]]), _sender, o, be)
              IN IF r.result \in {"sent", "dropped"}
                 THEN WhoisLoop(Tail(nicknames), _sender, r.o, be)
                 ELSE [raised |-> TRUE, o |-> r.o]

\* Lines 224-228, for a channel id that line 228 finds: a DM channel id
\* gives None; any other gives the bare cached name.
NormalizedChannelBare(msg) ==
    IF StartsWith(msg.channel, "D") THEN None ELSE channel_map[msg.channel].name

\* Lines 224-228, for a channel id that line 228 finds.
NormalizedChannel(msg) ==
    IF StartsWith(msg.channel, "D") THEN None
    ELSE <<"#">> \o channel_map[msg.channel].name

\* Line 236 with the channel forgotten: always the sender.
ReplyDestinationSender(retval) == retval.sender

\* _sender of line 236: where a built-in command replies.
ReplyDestination(retval) ==
    IF Truthy(retval.channel) THEN retval.channel ELSE retval.sender

\* SlackWS.process_message: retval is the Normalized Message, or None.
ProcessMessage(msg, o, be) ==
    IF ~Has(msg, "user") \/ ~Has(user_map, msg.user) \/ ~Has(user_map[msg.user], "name")
       \/ ~Has(msg, "channel")
    THEN [raised |-> TRUE, retval |-> None, o |-> o]
    ELSE LET user_nickname == user_map[msg.user].name
             dm == StartsWith(msg.channel, "D")
         IN IF ~dm /\ (~Has(channel_map, msg.channel)
                        \/ ~Has(channel_map[msg.channel], "name"))
            THEN [raised |-> TRUE, retval |-> None, o |-> o]
            ELSE IF ~Has(msg, "text") THEN [raised |-> TRUE, retval |-> None, o |-> o]
            ELSE LET channel == NormalizedChannel(msg)
                     retval == [sender |-> user_nickname, channel |-> channel,
                                message |-> msg.text]
                     _sender == ReplyDestination(retval)
                 IN IF StartsWith(msg.text, "!whois")
                    THEN LET w == WhoisLoop(Tail(Split(msg.text)), _sender, o, be)
                         IN [raised |-> w.raised, retval |-> None, o |-> w.o]
                    ELSE IF StartsWith(msg.text, "!slack-lag")
                    THEN LET r == SayResult([ms |-> lag_in_ms], _sender, o, be)
                         IN [raised |-> r.result \notin {"sent", "dropped"},
                             retval |-> None, o |-> r.o]
                    ELSE [raised |-> FALSE, retval |-> retval, o |-> o]

\* The keys of an envelope that read() itself inspects.
Header(message) ==
    [k \in (DOMAIN message) \cap {"reply_to", "type", "subtype"} |-> message[k]]

\* The hello event is the first envelope of a session, and only that.
IsHello(message) == Has(message, "type") /\ MsgType(message) = "hello"

\* say() calls a plain message envelope leads to
SaysOf(message) ==
    IF Route(message) = "message" /\ Has(message, "text")
    THEN IF StartsWith(message.text, "!whois") THEN Len(Split(message.text)) - 1
         ELSE IF StartsWith(message.text, "!slack-lag") THEN 1 ELSE 0
    ELSE 0

\* read() with a session that delivers the envelope `message` (lines 75-77
\* and 85-119).  lag: now - msg['time'], should the envelope be a pong.
ReadEnvelope(message, be, lag) ==
    /\ readPc = "idle"
    /\ ws # 0
    /\ ws \in live
    /\ IsHello(message) <=> hello_pending
    /\ _internal_msgid + SaysOf(message) <= MaxMsgs
    /\ hello_pending' = FALSE
    /\ LET path == Route(message) IN
       IF path \in {"ack", "typeless"}
       THEN /\ last' = [op |-> "read", header |-> Header(message), path |-> path,
                        result |-> "returned", retval |-> None, said |-> <<>>]
            /\ UNCHANGED <<conn, ping_tasks, sent_ids, dm_calls>>
       ELSE IF path = "message"
       THEN LET r == ProcessMessage(message, Out, be) IN
            /\ ApplyOut(r.o)
            /\ last' = [op |-> "read", header |-> Header(message), path |-> path,
                        result |-> IF r.raised THEN "raised" ELSE "returned",
                        retval |-> r.retval, said |-> r.o.said,
                        msg |-> message, says |-> r.o.says]
            /\ UNCHANGED <<user_map, user_nick_to_id, channel_map,
                           channel_name_to_id, nick, my_id, ws, _internal_pingid,
                           lag_in_ms, status, STATUS, ping_tasks>>
       ELSE LET h == Dispatch(message, lag) IN
            /\ user_map' = h.user_map
            /\ user_nick_to_id' = h.user_nick_to_id
            /\ STATUS' = h.STATUS
            /\ lag_in_ms' = h.lag_in_ms
            /\ ping_tasks' = h.ping_tasks
            /\ last' = [op |-> "read", header |-> Header(message), path |-> path,
                        key |-> MsgType(message),
                        result |-> IF h.raised THEN "raised" ELSE "returned",
                        retval |-> None, said |-> <<>>]
            /\ UNCHANGED <<channel_map, channel_name_to_id, nick, my_id, ws,
                           _internal_msgid, _internal_pingid, status, dm_cache,
                           sent_ids, dm_calls>>
    /\ UNCHANGED <<live, opened, readPc, ping_timers>>

\* read() before any session exists: `if self.ws` is false, nothing happens.
ReadNoSession ==
    /\ readPc = "idle"
    /\ ws = 0
    /\ last' = [op |-> "read", path |-> "no_session", result |-> "returned"]
    /\ UNCHANGED <<conn, env>>

\* ------------------------------------------------------ the environment
\* What the backend and the collaborators can hand the connector.  Names
\* follow the backend's rule for handles (no '#', no space); ids are those
\* the backend issues: U.. users, C.. channels, G.. groups, D.. DM channels.
UserIds == {"U1", "U2"}
Names == {<<"a">>, <<"b">>, <<"c">>}
C1 == <<"C", "1">>
G1 == <<"G", "1">>
D1 == <<"D", "1">>
D2 == <<"D", "2">>
Url == <<"wss">>
Presences == {"active", "away"}

Channel1 == [id |-> C1, name |-> <<"g">>]
Group1 == [id |-> G1, name |-> <<"p">>]
Im1 == [id |-> D1, user |-> "U1"]

\* A user record of the bootstrap payload.
User(id, name, deleted, is_bot) ==
    [id |-> id, name |-> name, deleted |-> deleted, is_bot |-> is_bot]

\* The rtm.start reply carrying the user list us.
Payload(us) ==
    [ok |-> TRUE, url |-> Url, self |-> [id |-> "UB", name |-> <<"w">>],
     users |-> us, ims |-> <<Im1>>, channels |-> <<Channel1>>,
     groups |-> <<Group1>>]
\* The reply of a refused rtm.start.
Refused == [ok |-> FALSE, error |-> "invalid_auth"]

\* User lists with distinct ids and distinct names, as the backend keeps them.
UserLists(recs) ==
    {<<>>} \cup {<<r>> : r \in recs}
    \cup {<<r1, r2>> : r1 \in {r \in recs : r.id = "U1"},
                       r2 \in {r \in recs : r.id = "U2"}}
WellFormed(us) == \A i, j \in 1..Len(us) : i # j => us[i].name # us[j].name

DmOk(d) == [ok |-> TRUE, channel |-> [id |-> d]]
DmFail == [ok |-> FALSE]
\* A backend that answers every im.open with reply.
Backend(reply) == [u \in UserIds |-> reply]
AllOk == Backend(DmOk(D1))

\* ------------------------------------------- the Directory Cache at work
DirRecs == {User(id, n, FALSE, FALSE) : id \in UserIds, n \in Names}
DirPayloads ==
    {Payload(us) : us \in {l \in UserLists(DirRecs) : WellFormed(l)}} \cup {Refused}
\* user_change records: the user object as the backend sends it (no 'nick'
\* key), and U1's also with a 'nick' key
ChangeRecs == DirRecs \cup {Put(r, "nick", r.name) : r \in {d \in DirRecs : d.id = "U1"}}
DirEnvelopes ==
    {[type |-> "hello"]}
    \cup {[type |-> "user_change", user |-> r] : r \in ChangeRecs}
    \cup {[type |-> "presence_change", user |-> u, presence |-> pr] :
            u \in UserIds, pr \in Presences}

NextDir ==
    \/ \E info \in DirPayloads : InitialConnect(info, FALSE, TRUE)
    \/ \E m \in DirEnvelopes : ReadEnvelope(m, AllOk, 0)
    \/ TransportClose
    \/ ReadClosed
    \/ \E info \in DirPayloads : ReconnectAttempt(info, FALSE, TRUE)
    \/ ReconnectWake

SpecDir == Init /\ [][NextDir]_vars

\* ------------------------------------------------------ say() at work
\* U1 with each setting of its flags; U2 whose record lacks the is_bot key.
SayRecs ==
    {User("U1", <<"a">>, d, b) : d \in BOOLEAN, b \in BOOLEAN}
    \cup {[id |-> "U2", name |-> <<"b">>, deleted |-> FALSE]}
SayPayloads ==
    {Payload(us) : us \in {l \in UserLists(SayRecs) : Len(l) = 2}} \cup {Refused}
Destinations ==
    {<<"a">>, <<"b">>, <<"c">>, <<"#", "g">>, <<"#", "x">>, <<"a", "#">>, <<>>}
Text == [str |-> <<"m">>]
DmReplies == {DmOk(D1), DmOk(D2), DmFail, UrlError}

NextSay ==
    \/ \E info \in SayPayloads, urlerr, wsok \in BOOLEAN :
           InitialConnect(info, urlerr, wsok)
    \/ \E d \in Destinations, r \in {DmOk(D1), DmFail} : Say(Text, d, Backend(r))
    \/ ReadEnvelope([type |-> "hello"], AllOk, 0)
    \/ DoPing
    \/ PingTimer
    \/ TransportClose
    \/ ReadClosed
    \/ \E info \in SayPayloads, urlerr, wsok \in BOOLEAN :
           ReconnectAttempt(info, urlerr, wsok)
    \/ ReconnectWake

SpecSay == Init /\ [][NextSay]_vars

\* ------------------------------------------------ the DM resolver at work
DmPayloads == {Payload(<<User("U1", <<"a">>, FALSE, FALSE),
                         User("U2", <<"b">>, FALSE, FALSE)>>)}

NextDm ==
    \/ \E info \in DmPayloads, urlerr \in BOOLEAN : InitialConnect(info, urlerr, TRUE)
    \/ \E d \in {<<"a">>, <<"b">>}, r \in DmReplies : Say(Text, d, Backend(r))
    \/ \E u \in UserIds, r \in DmReplies : ResolveDm(u, Backend(r))
    \/ ReadEnvelope([type |-> "hello"], AllOk, 0)
    \/ TransportClose
    \/ ReadClosed
    \/ \E info \in DmPayloads, urlerr \in BOOLEAN : ReconnectAttempt(info, urlerr, TRUE)
    \/ ReconnectWake

SpecDm == Init /\ [][NextDm]_vars

\* ------------------------------------------------------- read() at work
ReadPayloads ==
    {Payload(<<User("U1", <<"a">>, FALSE, FALSE), User("U2", <<"b">>, FALSE, TRUE)>>),
     Refused}
ReadTexts == {<<"h">>, <<"!whois", " ", "a">>, <<"!slack-lag">>}
\* Envelopes of every shape read() tells apart: with and without reply_to,
\* type and subtype; with and without a handler for their key.
ReadEnvelopes ==
    {[ok |-> TRUE], [reply_to |-> 1, ok |-> TRUE],
     [type |-> "hello"],
     [type |-> "pong", reply_to |-> 1, time |-> 0],
     [type |-> "user_typing", channel |-> C1, user |-> "U1"],
     [type |-> "team_join", user |-> User("U2", <<"c">>, FALSE, FALSE)],
     [type |-> "message", subtype |-> "channel_join", channel |-> C1, user |-> "U1"],
     [type |-> "message", subtype |-> "bot_message", channel |-> C1],
     [type |-> "user_change", user |-> User("U1", <<"c">>, FALSE, FALSE)],
     [type |-> "presence_change", user |-> "U1", presence |-> "away"],
     [type |-> "message", reply_to |-> 1, channel |-> C1, user |-> "U1",
      text |-> <<"h">>]}
    \cup {[type |-> "message", channel |-> c, user |-> "U1", text |-> t] :
            c \in {C1, D1}, t \in ReadTexts}

\* The lags (now - msg['time']) a pong may show; no other envelope has one.
Lags(m) == IF Has(m, "type") /\ m.type = "pong" THEN 0..MaxLag ELSE {0}

NextRead ==
    \/ \E info \in ReadPayloads, urlerr, wsok \in BOOLEAN :
           InitialConnect(info, urlerr, wsok)
    \/ ReadNoSession
    \/ \E m \in ReadEnvelopes : \E lag \in Lags(m) : ReadEnvelope(m, AllOk, lag)
    \/ DoPing
    \/ PingTimer
    \/ TransportClose
    \/ ReadClosed
    \/ \E info \in ReadPayloads, urlerr, wsok \in BOOLEAN :
           ReconnectAttempt(info, urlerr, wsok)
    \/ ReconnectWake

SpecRead == Init /\ [][NextRead]_vars

\* ------------------------------------------- plain messages at work
\* U1 a person, U2 a bot; U9 and channel C9 are in no cache.
MsgPayloads ==
    {Payload(<<User("U1", <<"a">>, FALSE, FALSE), User("U2", <<"b">>, FALSE, TRUE)>>)}
C9 == <<"C", "9">>
MsgTexts ==
    {<<"h">>, <<"!whois", " ", "a">>, <<"!whois", " ", "a", " ", "b">>,
     <<"!whois", " ", "z">>, <<"!slack-lag">>}
\* Plain message envelopes, with and without their text field.
MsgEnvelopes ==
    {[type |-> "message", channel |-> c, user |-> u, text |-> t] :
        c \in {C1, G1, D1, C9}, u \in {"U1", "U2", "U9"}, t \in MsgTexts}
    \cup {[type |-> "message", channel |-> c, user |-> "U1"] : c \in {C1, D1}}
    \cup {[type |-> "hello"], [type |-> "pong", reply_to |-> 1, time |-> 0]}

NextMsg ==
    \/ \E info \in MsgPayloads : InitialConnect(info, FALSE, TRUE)
    \/ \E m \in MsgEnvelopes, r \in {DmOk(D1), DmFail} :
          \E lag \in Lags(m) : ReadEnvelope(m, Backend(r), lag)
    \/ TransportClose
    \/ ReadClosed
    \/ \E info \in MsgPayloads, urlerr \in BOOLEAN : ReconnectAttempt(info, urlerr, TRUE)
    \/ ReconnectWake

SpecMsg == Init /\ [][NextMsg]_vars

\* ------------------------------------------------ the lifecycle at work
\* rtm.start replies with a well-formed self section, with none, and with
\* one that is not an object; and the refusal.
LifeUsers ==
    {<<User("U1", <<"a">>, FALSE, FALSE)>>, <<User("U2", <<"b">>, FALSE, FALSE)>>}
LifePayloads ==
    {Payload(us) : us \in LifeUsers}
    \cup {Del(Payload(us), "self") : us \in LifeUsers}
    \cup {Put(Payload(us), "self", NotADict) : us \in LifeUsers}
    \cup {Refused}

NextLife ==
    \/ \E info \in LifePayloads, urlerr, wsok \in BOOLEAN :
           InitialConnect(info, urlerr, wsok)
    \/ ReadEnvelope([type |-> "hello"], AllOk, 0)
    \/ DoPing
    \/ PingTimer
    \/ TransportClose
    \/ ReadClosed
    \/ \E info \in LifePayloads, urlerr, wsok \in BOOLEAN :
           ReconnectAttempt(info, urlerr, wsok)
    \/ ReconnectWake

SpecLife == Init /\ [][NextLife]_vars
\* =================================================================== claims
\* The key under which the last step dispatched an event, "" if it did not.
EventKey(l) == IF l.op = "read" /\ l.path = "dispatch" THEN l.key ELSE ""

\* The names the index maps to user id u.
NamesOf(index, u) == {n \in DOMAIN index : index[n] = u}

\* C1: when the cache holds user u under name n1 (and n1 resolves to u) and a
\* user_change event for u carrying another name n2 is applied, n1 is no
\* longer in the name->id index and n2 resolves to u.
C1_RenameSwapsIndex ==
    [][\A u \in UserIds :
         (/\ EventKey(last') = "user_change"
          /\ Has(user_map, u) /\ Has(user_map', u)
          /\ user_map'[u].name # user_map[u].name
          /\ Has(user_nick_to_id, user_map[u].name)
          /\ user_nick_to_id[user_map[u].name] = u)
         => /\ ~Has(user_nick_to_id', user_map[u].name)
            /\ Has(user_nick_to_id', user_map'[u].name)
            /\ user_nick_to_id'[user_map'[u].name] = u]_vars

\* C2: in every reachable state every user id of the user table has exactly
\* one name in the name->id index, and it is the name of the user's record.
C2_OneNamePerUser ==
    \A u \in DOMAIN user_map : NamesOf(user_nick_to_id, u) = {user_map[u].name}

\* C3: the ids say() puts on envelopes are strictly increasing (hence
\* distinct), and no step, a reconnect included, lowers the message counter.
C3_SeqIdsIncrease ==
    /\ [](\A i, j \in 1..Len(sent_ids) : i < j => sent_ids[i] < sent_ids[j])
    /\ [][_internal_msgid' >= _internal_msgid]_vars

\* Ids were put on envelopes on both sides of a reconnect, with a heartbeat
\* probe issued in between the says.
C3_Witness ==
    /\ last.op = "say" /\ last.said # <<>>
    /\ Len(sent_ids) >= 2
    /\ opened >= 2
    /\ _internal_pingid >= 1

\* The record has the bot flag or the deleted flag set.
Flagged(rec) ==
    \/ Has(rec, "is_bot") /\ rec.is_bot
    \/ Has(rec, "deleted") /\ rec.deleted

\* C4: a say() whose destination is a user name that resolves to a record
\* with the bot flag or the deleted flag set hands nothing to _send.
C4_NoWriteToBotOrDeleted ==
    [][(/\ last'.op = "say"
        /\ ~StartsWith(last'.destination, "#")
        /\ Has(user_nick_to_id, last'.destination)
        /\ Has(user_map, user_nick_to_id[last'.destination])
        /\ Flagged(user_map[user_nick_to_id[last'.destination]]))
       => last'.said = <<>> /\ sent_ids' = sent_ids]_vars

\* A say() to a live bot account, on an open session, was dropped.
C4_Witness ==
    /\ last.op = "say" /\ last.result = "dropped"
    /\ ws \in live
    /\ Has(user_nick_to_id, last.destination)
    /\ user_map[user_nick_to_id[last.destination]].is_bot
    /\ ~user_map[user_nick_to_id[last.destination]].deleted

\* The user a say() destination resolves to, "" when it is no cached user.
UserOf(destination) ==
    IF ~StartsWith(destination, "#") /\ Has(user_nick_to_id, destination)
    THEN user_nick_to_id[destination] ELSE ""

\* C5: for every user at most one im.open call that answered ok is ever
\* issued; the mapping cached for a user is never removed or changed; and a
\* resolution (direct, or inside say()) of a user already resolved returns
\* the cached DM channel, which is the one the first success returned.
C5_DmResolvedOnce ==
    /\ [](\A u \in DOMAIN dm_calls : dm_calls[u] <= 1)
    /\ [][/\ \A u \in DOMAIN dm_cache :
                Has(dm_cache', u) /\ dm_cache'[u] = dm_cache[u]
          /\ (last'.op = "resolve" /\ last'.result = "returned" /\ last'.ret # None)
                => /\ dm_cache'[last'.user] = last'.ret
                   /\ Has(dm_cache, last'.user) => last'.ret = dm_cache[last'.user]
          /\ (last'.op = "say" /\ Has(dm_cache, UserOf(last'.destination))
                /\ last'.said # <<>>)
                => last'.said[1].env.channel = dm_cache[UserOf(last'.destination)]
       ]_vars

\* After a reconnect, U1 is resolved again while the backend would now answer
\* with another channel: the first channel is returned.
C5_Witness ==
    /\ last.op = "resolve" /\ last.user = "U1"
    /\ last.reply = DmOk(D2) /\ last.ret = D1
    /\ opened >= 2

\* read() has seen the transport closure.
ClosureObserved ==
    \/ readPc \in {"connecting", "sleeping"}
    \/ last.op = "reconnect" /\ last.result = "raised"

\* C6: there is never more than one live session, and the connection handle
\* is absent or refers to a live session; in particular in the states of the
\* reconnect loop, where read() has observed the closure.
C6_HandleAbsentOrLive ==
    /\ Cardinality(live) <= 1
    /\ ClosureObserved => (ws = 0 \/ ws \in live)

\* C7: in the reconnect loop every failed connect() is followed by the wait
\* and another attempt; read() leaves the loop only by an attempt that
\* succeeded, returning normally with the handle on the new session.
C7_ReconnectUntilSuccess ==
    /\ [][last'.op = "reconnect" =>
            IF last'.ret = "True"
            THEN readPc' = "idle" /\ last'.result = "returned" /\ ws' \in live'
            ELSE readPc' = "sleeping"]_vars
    /\ [][readPc = "sleeping" => readPc' \in {"sleeping", "connecting"}]_vars

\* C8: an envelope takes exactly one of four paths, decided in this order:
\* (a) reply_to and no type: discarded; (b) no type: discarded; (c) type
\* message and no subtype: message normalization; (d) otherwise dispatched
\* under type, or type_subtype when there is a subtype.  (a) and (b) change
\* no connector state and hand nothing to _send.
C8_FourPaths ==
    [][(last'.op = "read" /\ Has(last', "header")) =>
         LET h == last'.header IN
         /\ (Has(h, "reply_to") /\ ~Has(h, "type")) => last'.path = "ack"
         /\ (~Has(h, "reply_to") /\ ~Has(h, "type")) => last'.path = "typeless"
         /\ (Has(h, "type") /\ h.type = "message" /\ ~Has(h, "subtype"))
                => last'.path = "message"
         /\ (Has(h, "type") /\ (h.type # "message" \/ Has(h, "subtype")))
                => /\ last'.path = "dispatch"
                   /\ last'.key = IF Has(h, "subtype")
                                  THEN h.type \o "_" \o h.subtype ELSE h.type
         /\ last'.path \in {"ack", "typeless"}
                => /\ UNCHANGED <<conn, sent_ids, dm_calls, ping_tasks, ping_timers>>
                   /\ last'.said = <<>>
                   /\ last'.result = "returned" /\ last'.retval = None]_vars

\* A message envelope with a subtype was dispatched under type_subtype.
C8_Witness ==
    /\ last.op = "read" /\ Has(last, "header")
    /\ last.path = "dispatch" /\ last.key = "message_channel_join"

\* C9: an envelope whose key has no handler is dropped: read() returns
\* without raising and the caches, both counters, the lag, the status and the
\* connection handle are unchanged.
C9_UnknownKeyDropped ==
    [][(EventKey(last') # "" /\ EventKey(last') \notin Handlers)
        => /\ last'.result = "returned"
           /\ UNCHANGED <<user_map, user_nick_to_id, channel_map,
                          channel_name_to_id, dm_cache, _internal_msgid,
                          _internal_pingid, lag_in_ms, status, STATUS, ws>>]_vars

\* An event of a type the connector has no handler for was read.
C9_Witness ==
    /\ EventKey(last) = "team_join"
    /\ last.result = "returned"

\* C10: a presence_change event never raises out of read(); it leaves the
\* name->id index and the set of cached users unchanged, and changes at most
\* the presence field of user records.
C10_PresenceChangeIsSafe ==
    [][EventKey(last') = "presence_change" =>
         /\ last'.result = "returned"
         /\ user_nick_to_id' = user_nick_to_id
         /\ DOMAIN user_map' = DOMAIN user_map
         /\ \A u \in DOMAIN user_map :
              \A k \in (DOMAIN user_map[u] \cup DOMAIN user_map'[u]) \ {"presence"} :
                 /\ Has(user_map[u], k) /\ Has(user_map'[u], k)
                 /\ user_map'[u][k] = user_map[u][k]]_vars

\* C11: a DM resolution that the backend answers with ok false returns an
\* absent result; and a say() during which im.open answered ok false hands
\* nothing to _send.
C11_FailedDmOpenWritesNothing ==
    /\ [][(last'.op = "resolve" /\ last'.reply = DmFail
              /\ ~Has(dm_cache, last'.user))
           => last'.result = "returned" /\ last'.ret = None]_vars
    /\ [][(last'.op = "say" /\ \E i \in 1..Len(last'.asked) : last'.asked[i] = DmFail)
           => last'.said = <<>> /\ sent_ids' = sent_ids]_vars

\* The last step was read() taking a plain message envelope.
PlainMessageRead(l) == l.op = "read" /\ Has(l, "msg")

\* The envelope is a plain message from a cached user on a DM channel or a
\* cached channel, with its text: what normalization expects.
WellFormedMessage(m) ==
    /\ Has(m, "text") /\ Has(m, "user") /\ Has(m, "channel")
    /\ Has(user_map, m.user)
    /\ StartsWith(m.channel, "D") \/ Has(channel_map, m.channel)

\* The names a !whois text asks about.
WhoisNames(text) == Tail(Split(text))

\* The text is !slack-lag, or !whois followed by cached user names.
BuiltinCommand(text) ==
    \/ StartsWith(text, "!slack-lag")
    \/ /\ StartsWith(text, "!whois")
       /\ WhoisNames(text) # <<>>
       /\ \A i \in 1..Len(WhoisNames(text)) :
             /\ Has(user_nick_to_id, WhoisNames(text)[i])
             /\ Has(user_map, user_nick_to_id[WhoisNames(text)[i]])

\* C12: a well-formed plain message whose text is a built-in command yields
\* no Normalized Message; every say() it leads to (there is at least one) is
\* addressed to the originating channel, by its marked name, or to the
\* sender's name when the envelope came over a DM channel; what is written
\* for a channel message goes to the envelope's channel id; and when read()
\* returns, !whois has answered once per name and !slack-lag once.
C12_BuiltinsIntercepted ==
    [][(/\ PlainMessageRead(last')
        /\ WellFormedMessage(last'.msg)
        /\ BuiltinCommand(last'.msg.text))
       => LET m == last'.msg
              dm == StartsWith(m.channel, "D")
              to == IF dm THEN user_map[m.user].name
                    ELSE <<"#">> \o channel_map[m.channel].name
          IN /\ last'.retval = None
             /\ last'.says # <<>>
             /\ \A i \in 1..Len(last'.says) : last'.says[i].to = to
             /\ ~dm => \A i \in 1..Len(last'.said) : last'.said[i].env.channel = m.channel
             /\ last'.result = "returned"
                  => Len(last'.says) = IF StartsWith(m.text, "!whois")
                                       THEN Len(WhoisNames(m.text)) ELSE 1]_vars

\* !whois a b arrived over a DM channel and was answered twice, to the
\* sender's DM channel.
C12_Witness ==
    /\ PlainMessageRead(last) /\ last.result = "returned"
    /\ last.msg.channel = D1 /\ last.msg.text = <<"!whois", " ", "a", " ", "b">>
    /\ Len(last.said) = 2 /\ last.said[2].env.channel = D1
    /\ last.retval = None

\* The text starts with neither built-in command.
OrdinaryText(text) == ~StartsWith(text, "!whois") /\ ~StartsWith(text, "!slack-lag")

\* read() returned the Normalized Message of envelope m with this channel,
\* having said nothing and changed nothing.
NormalizedAs(m, channel) ==
    /\ last'.result = "returned"
    /\ last'.retval = [sender |-> user_map[m.user].name, channel |-> channel,
                       message |-> m.text]
    /\ last'.said = <<>> /\ last'.says = <<>>
    /\ UNCHANGED <<conn, sent_ids, dm_calls>>

\* C13, as stated: normalization of a well-formed plain message gives the
\* sender's cached name, the envelope text, and as channel None for a DM
\* channel id and the cached channel's name otherwise.
C13_ChannelIsCachedName ==
    [][(/\ PlainMessageRead(last')
        /\ WellFormedMessage(last'.msg)
        /\ OrdinaryText(last'.msg.text))
       => NormalizedAs(last'.msg,
                       IF StartsWith(last'.msg.channel, "D") THEN None
                       ELSE channel_map[last'.msg.channel].name)]_vars

\* C13, amended: normalization of a well-formed plain message gives the
\* sender's cached name, the envelope text, and as channel None for a DM
\* channel id and otherwise the channel marker '#' followed by the cached
\* channel's name.
C13_ChannelIsMarkedName ==
    [][(/\ PlainMessageRead(last')
        /\ WellFormedMessage(last'.msg)
        /\ OrdinaryText(last'.msg.text))
       => NormalizedAs(last'.msg,
                       IF StartsWith(last'.msg.channel, "D") THEN None
                       ELSE <<"#">> \o channel_map[last'.msg.channel].name)]_vars

\* A message of U1 in the private group p was normalized.
C13_Witness ==
    /\ PlainMessageRead(last) /\ last.result = "returned"
    /\ last.msg.channel = G1 /\ last.msg.user = "U1" /\ last.msg.text = <<"h">>
    /\ last.retval = [sender |-> <<"a">>, channel |-> <<"#", "p">>, message |-> <<"h">>]

\* The last step was a connect() call, from the owner or from read().
ConnectCall(l) == l.op \in {"connect", "reconnect"}

\* authenticate() failed: urlopen raised, or the backend answered ok false.
AuthFailed(l) == l.auth.urlerr \/ ~Get(l.auth.info, "ok", TRUE)

\* C14: a connect() whose authentication fails (transport error, or reply
\* with ok false) returns None without raising, opens no session, and leaves
\* every field of the connector (the handle, the status, the four cache
\* tables and the identity among them) as it was.
C14_AuthFailureChangesNothing ==
    [][(ConnectCall(last') /\ AuthFailed(last'))
       => /\ last'.ret = "None"
          /\ UNCHANGED <<conn, live, opened, hello_pending>>]_vars

\* A reconnect attempt of a connector with a seeded cache was refused by the
\* backend.
C14_Witness ==
    /\ last.op = "reconnect" /\ last.ret = "None"
    /\ ~last.auth.urlerr /\ ~Get(last.auth.info, "ok", TRUE)
    /\ user_map # EmptyDict /\ STATUS = CONNECTED

\* C15: a plain message envelope that lacks its text, or whose user or
\* channel id is in no cache table, is dropped: read() returns, without a
\* Normalized Message, and does not raise.
C15_MalformedMessageDropped ==
    [][(PlainMessageRead(last') /\ ~WellFormedMessage(last'.msg))
       => last'.result = "returned" /\ last'.retval = None]_vars

\* C16: once read() has observed a transport closure, the lifecycle state is
\* not CONNECTED until the next hello: neither while read() waits between
\* two reconnect attempts, nor after an attempt that opened a session whose
\* hello has not been read yet.
C16_ClosureFallsBackToConnecting ==
    (readPc = "sleeping" \/ hello_pending) => STATUS # CONNECTED

\* No heartbeat probe has been scheduled or sent so far (the probe counter
\* never decreases).
NoHeartbeatYet == _internal_pingid = 0 /\ ping_tasks = 0 /\ ping_timers = 0

\* C17: the STATUS attribute becomes CONNECTING only in a connect() call
\* whose authentication succeeded, and CONNECTED only in the dispatch of a
\* hello event; that dispatch sets CONNECTED and schedules one heartbeat
\* probe; and as long as no hello has been dispatched no probe is scheduled
\* or sent.
C17_LifecycleTransitions ==
    /\ [][(STATUS' # STATUS /\ STATUS' = CONNECTING)
           => ConnectCall(last') /\ ~AuthFailed(last') /\ last'.ret # "None"]_vars
    /\ [][(STATUS' # STATUS /\ STATUS' = CONNECTED)
           => EventKey(last') = "hello"]_vars
    /\ [][EventKey(last') = "hello"
           => STATUS' = CONNECTED /\ ping_tasks' = ping_tasks + 1
              /\ ping_timers' = ping_timers]_vars
    /\ [][(NoHeartbeatYet /\ ~NoHeartbeatYet') => EventKey(last') = "hello"]_vars

\* The first probe of a run was sent, on a connector that is CONNECTED.
C17_Witness ==
    /\ last.op = "ping" /\ last.id = 1 /\ last.result = "sent"
    /\ STATUS = CONNECTED

\* C18: every heartbeat probe attempt, whether its transport write succeeded
\* or raised, leaves the heartbeat scheduled: a timer is pending that will
\* start the next probe one period later.
C18_HeartbeatReschedulesAlways ==
    [][last'.op = "ping" => ping_timers' = ping_timers + 1]_vars

\* The rtm.start reply of the last connect() was accepted and its self
\* section is missing, or is not an object.
SelfUnreadable(l) ==
    /\ ConnectCall(l) /\ ~AuthFailed(l)
    /\ ~Has(l.auth.info, "self") \/ ~IsDict(l.auth.info.self)

\* The collections of an accepted reply are in the cache tables: its
\* channel, group and DM channel, and its user under its name.
Seeded ==
    /\ {C1, G1, D1} \subseteq DOMAIN channel_map
    /\ Has(channel_name_to_id, Channel1.name) /\ channel_name_to_id[Channel1.name] = C1
    /\ Has(channel_name_to_id, Group1.name) /\ channel_name_to_id[Group1.name] = G1
    /\ \E us \in LifeUsers :
          /\ Has(user_map, us[1].id) /\ user_map[us[1].id] = us[1]
          /\ Has(user_nick_to_id, us[1].name) /\ user_nick_to_id[us[1].name] = us[1].id

\* C19: a connect() whose rtm.start reply has no self section, or one that
\* is not an object, does not fail in the bootstrap (it does not return
\* None); afterwards the reply's users, DM channels, channels and groups are
\* in the cache tables and the identity has its defaults (id '000', empty
\* name); on the first seeding and on every later one.
C19_UnreadableSelfTolerated ==
    [][SelfUnreadable(last')
       => /\ last'.ret # "None"
          /\ Seeded'
          /\ my_id' = "000" /\ nick' = <<>>]_vars

\* C20: at any time at most one heartbeat chain exists: a probe scheduled to
\* run or a timer pending to schedule one.
C20_OneHeartbeatChain == ping_tasks + ping_timers <= 1

\* C21: in every state every name of the user name->id index maps to an id
\* that is in the user table; and no step (seeding, re-seeding, user_change,
\* presence_change or any other) removes an id from the user table or from
\* the channel table.
C21_IndexedUsersCachedNothingRemoved ==
    /\ [](\A n \in DOMAIN user_nick_to_id : Has(user_map, user_nick_to_id[n]))
    /\ [][/\ DOMAIN user_map \subseteq DOMAIN user_map'
          /\ DOMAIN channel_map \subseteq DOMAIN channel_map']_vars

\* After a re-seeding, a user_change event was applied to a cache that holds
\* both users and an index with more names than users (a name of an earlier
\* session is still indexed).
C21_Witness ==
    /\ EventKey(last) = "user_change" /\ last.result = "returned"
    /\ opened >= 2
    /\ DOMAIN user_map = UserIds
    /\ Cardinality(DOMAIN user_nick_to_id) >= 3
    /\ {C1, G1, D1} \subseteq DOMAIN channel_map
====
